---- MODULE Spec2Model ----
(***************************************************************************)
(* MMG payment reconciliation core: checkout initiation, the gateway       *)
(* callback (GET /api/mmg/webhook and its form-POST twin), the session     *)
(* token cache, the encryption codec and the client confirmation endpoint  *)
(* (POST /api/mmg/confirm-payment) over the payment_transactions,          *)
(* subscriptions, driver_profiles / rider_profiles and mmg_webhook_logs    *)
(* tables.  Every `await` on the datastore or the gateway is a suspension  *)
(* point, so one action is one datastore/gateway operation together with   *)
(* the handler code that runs until the next await is issued.              *)
(***************************************************************************)
EXTENDS Integers, Sequences, FiniteSets, TLC

\* ---------------------------------------------------------------- bounds
MaxCalls == 3          \* handler invocations accepted in one behaviour
MaxInFlight == 2       \* handler invocations suspended at the same time
MaxTime == 2           \* distinct readings of the wall clock
MaxConfirmCalls == 2   \* confirmations accepted in a behaviour of ConfirmSpec
MaxTicks == 6          \* advances of the clock getEcommerceToken reads
MaxLen == 3            \* characters of a string handed to encrypt

\* ------------------------------------------------------ program constants
SubscriptionDays == 30

Users == {"u1", "u2"}
\* a user whose role has no subscription plan
Staff == {"u3"}
Role == [u \in Users \cup Staff |->
           CASE u = "u1" -> "rider" [] u = "u2" -> "driver" [] OTHER -> "admin"]
\* gateway transaction ids a client may submit for confirmation
GatewayIds == {1, 2}
\* the id the gateway gives the payment made for checkout mid: one payment,
\* one id, repeated in every delivery of its callback
GatewayIdOf(mid) == IF mid > 0 THEN mid ELSE 1
\* <<ResultCode, ResultMessage>> pairs the gateway reports
GatewayResults == {<<"0", "">>, <<"1", "declined">>, <<"1", "">>}
SUBSCRIPTION_TYPES == {"rider_monthly", "driver_monthly"}
\* the role table with its two entries exchanged
expectedRoleByTypeSwapped == [t \in SUBSCRIPTION_TYPES |->
                         IF t = "rider_monthly" THEN "driver" ELSE "rider"]
expectedRoleByType == [t \in SUBSCRIPTION_TYPES |->
                         IF t = "rider_monthly" THEN "rider" ELSE "driver"]
ConfiguredPrices == {5000}
LookupAmounts == {5000, 4000}
Undefined == -3        \* prices[subscriptionType] when the key is absent
\* what the subscription_prices value may hold for a plan
PriceEntries == ConfiguredPrices \cup {0, -5000, Undefined}
\* the system_config row read by the confirmation: missing (or its select
\* failed), or found with a value object
ConfigRows ==
  {[found |-> FALSE, value |-> [t \in SUBSCRIPTION_TYPES |-> Undefined]]}
  \cup {[found |-> TRUE, value |-> f] :
          f \in [SUBSCRIPTION_TYPES -> PriceEntries]}
\* how lookupTransaction ends: the login fails, the lookup request fails
\* (HTTP error, network error or timeout), the transaction is reported with
\* a status other than successful, or it is returned
LookupOutcomes == {"ok", "login_failed", "http_error", "not_successful"}

\* mmg.ts:62, the safety buffer of the token cache
bufferSeconds == 30
\* one advance of the clock between two steps, in seconds
TickSeconds == 10
\* expires_in as the gateway reports it (Undefined: the field is absent)
ExpiresIn == {20, 50, Undefined}

NaN == -1              \* parseInt of a string that has no leading digits
NULL == "null"
NoId == 0              \* a null id column
UnknownId == -2        \* an id no payment_transactions row has
Slots == 1..MaxInFlight
Idle == [op |-> "idle"]
NoRow == [id |-> NoId]
NoCache == [none |-> TRUE]      \* ecommerceTokenCache = null
NoToken == [none |-> TRUE]

VARIABLES
  payment_transactions,  \* sequence of rows, the row id is its index
  subscriptions,         \* sequence of rows, the row id is its index
  driver_profiles,       \* user_id -> subscription fields (drivers)
  rider_profiles,        \* user_id -> subscription fields (riders)
  mmg_webhook_logs,      \* number of audit rows appended
  now,                   \* wall clock: the next reading of new Date()
  proc,                  \* slot -> suspended handler invocation, or Idle
  lastResp,              \* response sent by the last step, if it sent one
  gateway,               \* request the last step sent to the gateway, if any
  calls,                 \* handler invocations accepted so far
  ecommerceTokenCache,   \* mmg.ts: the cached session token, or NoCache
  clock,                 \* Date.now() in seconds, as getEcommerceToken reads it
  tokenCalls,            \* slot -> getEcommerceToken call suspended at its login
  tokenRet,              \* how the last step ended a getEcommerceToken call
  codec                  \* an object on its way through encrypt / decrypt

\* the state of the MMGService module and of the encryption codec
mmgVars == <<ecommerceTokenCache, clock, tokenCalls, tokenRet, codec>>

vars == <<payment_transactions, subscriptions, driver_profiles,
          rider_profiles, mmg_webhook_logs, now, proc, lastResp, gateway,
          calls, ecommerceTokenCache, clock, tokenCalls, tokenRet, codec>>

tables == <<payment_transactions, subscriptions, driver_profiles,
            rider_profiles>>

\* ---------------------------------------------------------------- helpers
PtIds == 1..Len(payment_transactions)
SubIds == 1..Len(subscriptions)

\* parseInt(s, 10) on the result codes the gateway sends: the leading
\* decimal digits, NaN when there is none (also for a missing code)
ParseInt10(s) ==
  CASE s = "0"  -> 0
    [] s = "00" -> 0
    [] s = "0x" -> 0
    [] s = "1"  -> 1
    [] OTHER    -> NaN

\* route.ts:48
ResultCodeOf(s) == IF s = "0" THEN 0 ELSE ParseInt10(s)

\* parseFloat(lookupResult.amount) || 0
ParseFloatOr0(a) == IF a = NaN THEN 0 ELSE a

\* a window that runs to the same day of the next year
EndDateNextYear(startDate) == startDate + 365

\* endDate.setDate(endDate.getDate() + 30)
EndDate(startDate) == startDate + SubscriptionDays

\* .maybeSingle(): the row when exactly one row matches; data is null when
\* none matches and also when several match (the error is not inspected)
MaybeSingle(ids) ==
  IF Cardinality(ids) = 1 THEN CHOOSE p \in ids : TRUE ELSE NoId

TrialProfile ==
  [subscription_status |-> "trial", subscription_start_date |-> NoId,
   subscription_end_date |-> NoId]

ActiveProfile(startDate) ==
  [subscription_status |-> "active", subscription_start_date |-> startDate,
   subscription_end_date |-> EndDate(startDate)]

\* the profile row of user u in the table selected by the user's role
ProfileOf(u) ==
  IF Role[u] = "driver" THEN driver_profiles[u] ELSE rider_profiles[u]

\* the response of a finished invocation: HTTP status, which return
\* statement produced it, and the payment / subscription ids it carries
Resp(op, status, detail, paymentId, subscriptionId) ==
  [op |-> op, status |-> status, detail |-> detail,
   paymentId |-> paymentId, subscriptionId |-> subscriptionId]

NoResp == Resp("none", 0, "none", NoId, NoId)

Respond(r) == lastResp' = r

\* an invocation enters slot i, the first free one
Begin(i) ==
  /\ proc[i] = Idle
  /\ \A j \in Slots : j < i => proc[j] # Idle
  /\ calls < MaxCalls

\* the module state of mmg.ts and an idle codec
MmgInit ==
  /\ ecommerceTokenCache = NoCache
  /\ clock = 0
  /\ tokenCalls = [k \in Slots |-> Idle]
  /\ tokenRet = [kind |-> "none", token |-> NoToken, replaced |-> NoCache]
  /\ codec = [stage |-> "idle"]

Init ==
  /\ payment_transactions = <<>>
  /\ subscriptions = <<>>
  /\ driver_profiles = [u \in {v \in Users : Role[v] = "driver"} |-> TrialProfile]
  /\ rider_profiles = [u \in {v \in Users : Role[v] = "rider"} |-> TrialProfile]
  /\ mmg_webhook_logs = 0
  /\ now = 1
  /\ proc = [i \in Slots |-> Idle]
  /\ lastResp = NoResp
  /\ gateway = "none"
  /\ calls = 0
  /\ MmgInit

\* new Date(): successive readings differ until the clock bound is reached
ReadClock == now' = IF now < MaxTime THEN now + 1 ELSE now

\* ------------------------------------------------------------- checkout
\* a null gateway_response column
NoResponse == [none |-> TRUE]

PendingRow(u, amount) ==
  [user_id |-> u, status |-> "pending", amount |-> amount,
   subscription_id |-> NoId, mmg_transaction_id |-> NoId,
   error_message |-> NULL, gateway_response |-> NoResponse]

At(i, op, pc) == proc[i] # Idle /\ proc[i].op = op /\ proc[i].pc = pc

Finish(i, r) ==
  /\ proc' = [proc EXCEPT ![i] = Idle]
  /\ Respond(r)

\* the catch block of a handler: 500 JSON
Throw(i) == Finish(i, Resp(proc[i].op, 500, "error", NoId, NoId))

\* POST /api/mmg/checkout: validation, authentication and the user lookup
\* (u = NULL: no valid bearer token), up to the insert being issued
CheckoutStart(i, u, amount) ==
  /\ Begin(i)
  /\ IF amount <= 0
       THEN /\ Respond(Resp("checkout", 400, "invalid_amount", NoId, NoId))
            /\ UNCHANGED <<proc, calls>>
       ELSE IF u = NULL
       THEN /\ Respond(Resp("checkout", 401, "unauthorized", NoId, NoId))
            /\ UNCHANGED <<proc, calls>>
       ELSE /\ proc' = [proc EXCEPT ![i] =
                 [op |-> "checkout", pc |-> "insert", user |-> u,
                  amount |-> amount]]
            /\ calls' = calls + 1
            /\ lastResp' = NoResp
  /\ UNCHANGED <<tables, mmg_webhook_logs, now>>
  /\ gateway' = "none"
  /\ UNCHANGED mmgVars

\* a checkout that takes the user's failed payment up again instead of
\* inserting a row
CheckoutInsertReuse(i, outcome) ==
  /\ At(i, "checkout", "insert")
  /\ LET failed == {p \in PtIds :
                      /\ payment_transactions[p].user_id = proc[i].user
                      /\ payment_transactions[p].status = "failed"} IN
     IF outcome = "insert_error"
       THEN /\ Throw(i)
            /\ UNCHANGED payment_transactions
       ELSE IF failed # {}
       THEN LET p == CHOOSE q \in failed : TRUE IN
            /\ payment_transactions' = [payment_transactions EXCEPT
                 ![p] = PendingRow(proc[i].user, proc[i].amount)]
            /\ Finish(i, Resp("checkout", 200, "PENDING", p, NoId))
       ELSE /\ payment_transactions' = Append(payment_transactions,
                 PendingRow(proc[i].user, proc[i].amount))
            /\ Finish(i, Resp("checkout", 200, "PENDING",
                              Len(payment_transactions) + 1, NoId))
  /\ UNCHANGED <<subscriptions, driver_profiles, rider_profiles,
                 mmg_webhook_logs, now, calls>>
  /\ gateway' = "none"
  /\ UNCHANGED mmgVars

\* the insert of the pending row, createCheckoutSession and the response
CheckoutInsert(i, outcome) ==
  /\ At(i, "checkout", "insert")
  /\ IF outcome = "insert_error"
       THEN /\ Throw(i)
            /\ UNCHANGED payment_transactions
       ELSE /\ payment_transactions' = Append(payment_transactions,
                 PendingRow(proc[i].user, proc[i].amount))
            /\ IF outcome = "session_error"
                 THEN Throw(i)
                 ELSE Finish(i, Resp("checkout", 200, "PENDING",
                                     Len(payment_transactions) + 1, NoId))
  /\ UNCHANGED <<subscriptions, driver_profiles, rider_profiles,
                 mmg_webhook_logs, now, calls>>
  /\ gateway' = "none"
  /\ UNCHANGED mmgVars

\* ----------------------------------------- gateway callback (GET, POST)
SubscriptionRow(u, amount, startDate, reference, paymentId) ==
  [user_id |-> u, user_role |-> Role[u], amount |-> amount,
   start_date |-> startDate, end_date |-> EndDate(startDate),
   status |-> "active", payment_reference |-> reference,
   forPayment |-> paymentId]   \* history: the payment being reconciled

\* the payload the token decrypts to
Payload(mid, g, rc, msg) ==
  [merchantTransactionId |-> mid, transactionId |-> g, ResultCode |-> rc,
   ResultMessage |-> msg]

\* the completion update without the subscription link
CompletedRowUnlinked(row, subId, payload) ==
  [row EXCEPT !.status = "completed",
              !.mmg_transaction_id = payload.transactionId,
              !.gateway_response = payload]

\* .update({status: 'completed', ...}).eq('id', id)
CompletedRow(row, subId, payload) ==
  [row EXCEPT !.status = "completed", !.subscription_id = subId,
              !.mmg_transaction_id = payload.transactionId,
              !.gateway_response = payload]

\* the failure update without the status column
FailedRowKeepsStatus(row, payload) ==
  [row EXCEPT !.mmg_transaction_id = payload.transactionId,
              !.gateway_response = payload,
              !.error_message = IF payload.ResultMessage = ""
                                  THEN "Payment failed"
                                  ELSE payload.ResultMessage]

\* .update({status: 'failed', ...}).eq('id', id)
FailedRow(row, payload) ==
  [row EXCEPT !.status = "failed",
              !.mmg_transaction_id = payload.transactionId,
              !.gateway_response = payload,
              !.error_message = IF payload.ResultMessage = ""
                                  THEN "Payment failed"
                                  ELSE payload.ResultMessage]

\* the success path without its idempotency check
AlreadyCompletedNever(row) == FALSE

\* the already-completed shortcut of the success path
AlreadyCompleted(row) == row.status = "completed"

\* update driver_profiles or rider_profiles, by the user's role
UpdateProfile(u, startDate) ==
  IF Role[u] = "driver"
    THEN /\ driver_profiles' = [driver_profiles EXCEPT ![u] = ActiveProfile(startDate)]
         /\ UNCHANGED rider_profiles
    ELSE /\ rider_profiles' = [rider_profiles EXCEPT ![u] = ActiveProfile(startDate)]
         /\ UNCHANGED driver_profiles

\* the audit insert left out
AppendLogNever(logOk) == UNCHANGED mmg_webhook_logs

\* insert into mmg_webhook_logs: one row, unless the insert errors
AppendLog(logOk) ==
  mmg_webhook_logs' = IF logOk THEN mmg_webhook_logs + 1 ELSE mmg_webhook_logs

\* a handler that gives up when the audit insert errors
LogErrorIsFatalWhenFailed(logOk) == ~logOk

\* if (logError) console.error(...): the error is reported on the console
\* and the handler goes on
LogErrorIsFatal(logOk) == FALSE

\* request received: token extraction, decrypt, result code conversion, the
\* merchantTransactionId check (mid = NoId: the field is missing) and the
\* insert into mmg_webhook_logs, whose error is logged and ignored.  The
\* insert touches no other table, so it is taken with the request.  The
\* two transports run the same statements up to here; the invocation is
\* left at the payment lookup of its handler (pc).
ReceiveCallback(i, token, mid, g, rc, msg, logOk, pc) ==
  /\ Begin(i)
  /\ IF token = "missing"
       THEN /\ Respond(Resp("callback", 400, "missing_token", NoId, NoId))
            /\ UNCHANGED <<proc, mmg_webhook_logs, calls>>
       ELSE IF token = "undecryptable"
       THEN /\ Respond(Resp("callback", 400, "decrypt_failed", NoId, NoId))
            /\ UNCHANGED <<proc, mmg_webhook_logs, calls>>
       ELSE IF mid = NoId
       THEN /\ Respond(Resp("callback", 400, "missing_id", NoId, NoId))
            /\ UNCHANGED <<proc, mmg_webhook_logs, calls>>
       ELSE IF LogErrorIsFatal(logOk)
       THEN /\ Respond(Resp("callback", 500, "error", NoId, NoId))
            /\ UNCHANGED <<proc, mmg_webhook_logs, calls>>
       ELSE /\ AppendLog(logOk)
            /\ proc' = [proc EXCEPT ![i] =
                 [op |-> "callback", pc |-> pc,
                  payload |-> Payload(mid, g, rc, msg),
                  resultCode |-> ResultCodeOf(rc),
                  user |-> NULL, amount |-> 0, startDate |-> NoId,
                  subId |-> NoId]]
            /\ calls' = calls + 1
            /\ lastResp' = NoResp
  /\ UNCHANGED <<tables, now>>
  /\ gateway' = "none"
  /\ UNCHANGED mmgVars

\* GET /api/mmg/webhook?token=...
CallbackStart(i, token, mid, g, rc, msg, logOk) ==
  ReceiveCallback(i, token, mid, g, rc, msg, logOk, "fetch")

\* POST with the form field TOKEN
PostStart(i, token, mid, g, rc, msg, logOk) ==
  ReceiveCallback(i, token, mid, g, rc, msg, logOk, "fetchPost")

\* select payment_transactions by id, the branch on the result code, the
\* subscription window and the select of the owner from users (users is
\* not written by these handlers, so its read is taken in the same step);
\* idempotent: the handler has the already-completed shortcut
FetchStep(i, userOk, idempotent) ==
  /\ LET mid == proc[i].payload.merchantTransactionId IN
     IF mid \notin PtIds
       THEN /\ Finish(i, Resp("callback", 404, "not_found", NoId, NoId))
            /\ UNCHANGED now
       ELSE LET row == payment_transactions[mid] IN
            IF proc[i].resultCode = 0
              THEN IF idempotent /\ AlreadyCompleted(row)
                     THEN /\ Finish(i, Resp("callback", 303, "already", mid,
                                            row.subscription_id))
                          /\ UNCHANGED now
                     ELSE /\ ReadClock
                          /\ IF userOk
                               THEN /\ proc' = [proc EXCEPT
                                         ![i].pc = "insertSub",
                                         ![i].user = row.user_id,
                                         ![i].amount = row.amount,
                                         ![i].startDate = now]
                                    /\ lastResp' = NoResp
                               ELSE Throw(i)
              ELSE /\ proc' = [proc EXCEPT ![i].pc = "markFailed"]
                   /\ lastResp' = NoResp
                   /\ UNCHANGED now
  /\ UNCHANGED <<tables, mmg_webhook_logs, calls>>
  /\ gateway' = "none"
  /\ UNCHANGED mmgVars

\* the payment lookup of the GET handler
CallbackFetch(i, userOk) ==
  At(i, "callback", "fetch") /\ FetchStep(i, userOk, TRUE)

\* the payment lookup of the POST handler, which goes from the result code
\* straight to the subscription window; what follows it (the inserts and
\* updates, the redirects, the catch block) is the GET handler's code
PostFetch(i, userOk) ==
  At(i, "callback", "fetchPost") /\ FetchStep(i, userOk, FALSE)

\* insert into subscriptions
CallbackInsertSub(i, ok) ==
  /\ At(i, "callback", "insertSub")
  /\ IF ok
       THEN /\ subscriptions' = Append(subscriptions,
                 SubscriptionRow(proc[i].user, proc[i].amount,
                                 proc[i].startDate,
                                 proc[i].payload.transactionId,
                                 proc[i].payload.merchantTransactionId))
            /\ proc' = [proc EXCEPT ![i].pc = "updatePt",
                                    ![i].subId = Len(subscriptions) + 1]
            /\ lastResp' = NoResp
       ELSE /\ Throw(i)
            /\ UNCHANGED subscriptions
  /\ UNCHANGED <<payment_transactions, driver_profiles, rider_profiles,
                 mmg_webhook_logs, now, calls>>
  /\ gateway' = "none"
  /\ UNCHANGED mmgVars

\* update payment_transactions to completed, linked to the subscription
CallbackUpdatePt(i, ok) ==
  /\ At(i, "callback", "updatePt")
  /\ LET mid == proc[i].payload.merchantTransactionId IN
     IF ok
       THEN /\ payment_transactions' = [payment_transactions EXCEPT ![mid] =
                 CompletedRow(@, proc[i].subId, proc[i].payload)]
            /\ proc' = [proc EXCEPT ![i].pc = "profile"]
            /\ lastResp' = NoResp
       ELSE /\ Throw(i)
            /\ UNCHANGED payment_transactions
  /\ UNCHANGED <<subscriptions, driver_profiles, rider_profiles,
                 mmg_webhook_logs, now, calls>>
  /\ gateway' = "none"
  /\ UNCHANGED mmgVars

\* update the owner's driver_profiles / rider_profiles row, then redirect
CallbackProfile(i, ok) ==
  /\ At(i, "callback", "profile")
  /\ IF ok
       THEN /\ UpdateProfile(proc[i].user, proc[i].startDate)
            /\ Finish(i, Resp("callback", 303, "success",
                              proc[i].payload.merchantTransactionId,
                              proc[i].subId))
       ELSE /\ Throw(i)
            /\ UNCHANGED <<driver_profiles, rider_profiles>>
  /\ UNCHANGED <<payment_transactions, subscriptions, mmg_webhook_logs, now,
                 calls>>
  /\ gateway' = "none"
  /\ UNCHANGED mmgVars

\* failure path: update payment_transactions to failed, then redirect
CallbackMarkFailed(i, ok) ==
  /\ At(i, "callback", "markFailed")
  /\ LET mid == proc[i].payload.merchantTransactionId IN
     IF ok
       THEN /\ payment_transactions' = [payment_transactions EXCEPT ![mid] =
                 FailedRow(@, proc[i].payload)]
            /\ Finish(i, Resp("callback", 303, "failed", mid, NoId))
       ELSE /\ Throw(i)
            /\ UNCHANGED payment_transactions
  /\ UNCHANGED <<subscriptions, driver_profiles, rider_profiles,
                 mmg_webhook_logs, now, calls>>
  /\ gateway' = "none"
  /\ UNCHANGED mmgVars

\* ------------------------------------------- confirmation (POST confirm)
\* what lookupTransaction returns: a transaction reported successful
LookupResult(g, amount) ==
  [transactionId |-> g, amount |-> amount, transactionStatus |-> "successful"]

\* a synthesized payment that starts as pending
ConfirmedRowPending(u, amount, g) ==
  [user_id |-> u, status |-> "pending", amount |-> amount,
   subscription_id |-> NoId, mmg_transaction_id |-> g,
   error_message |-> NULL,
   gateway_response |-> LookupResult(g, amount)]

\* .insert({status: 'completed', mmg_transaction_id, ...})
ConfirmedRow(u, amount, g) ==
  [user_id |-> u, status |-> "completed", amount |-> amount,
   subscription_id |-> NoId, mmg_transaction_id |-> g,
   error_message |-> NULL,
   gateway_response |-> LookupResult(g, amount)]

\* .eq("mmg_transaction_id", g).neq("user_id", u).maybeSingle()
ExistingOther(u, g) ==
  MaybeSingle({p \in PtIds : /\ payment_transactions[p].mmg_transaction_id = g
                             /\ payment_transactions[p].user_id # u})

\* .eq("user_id", u).eq("mmg_transaction_id", g).eq("status", "completed")
\* .maybeSingle()
ExistingPayment(u, g) ==
  MaybeSingle({p \in PtIds : /\ payment_transactions[p].user_id = u
                             /\ payment_transactions[p].mmg_transaction_id = g
                             /\ payment_transactions[p].status = "completed"})

\* body validation, authentication (u = NULL: no valid bearer token), the
\* user lookup and the subscriptionType / role check
ConfirmStart(i, u, g, subscriptionType) ==
  /\ Begin(i)
  /\ IF g = NoId \/ subscriptionType \notin SUBSCRIPTION_TYPES
       THEN /\ Respond(Resp("confirm", 400, "invalid_body", NoId, NoId))
            /\ UNCHANGED <<proc, calls>>
       ELSE IF u = NULL
       THEN /\ Respond(Resp("confirm", 401, "unauthorized", NoId, NoId))
            /\ UNCHANGED <<proc, calls>>
       ELSE IF Role[u] # expectedRoleByType[subscriptionType]
       THEN /\ Respond(Resp("confirm", 400, "role_mismatch", NoId, NoId))
            /\ UNCHANGED <<proc, calls>>
       ELSE /\ proc' = [proc EXCEPT ![i] =
                 [op |-> "confirm", pc |-> "checkOther", user |-> u,
                  transactionId |-> g, subscriptionType |-> subscriptionType,
                  expectedAmount |-> 0, amount |-> 0, paymentId |-> NoId,
                  startDate |-> NoId, subId |-> NoId]]
            /\ calls' = calls + 1
            /\ lastResp' = NoResp
  /\ UNCHANGED <<tables, mmg_webhook_logs, now>>
  /\ gateway' = "none"
  /\ UNCHANGED mmgVars

\* is the transaction already used by a different user -> 409
ConfirmCheckOther(i) ==
  /\ At(i, "confirm", "checkOther")
  /\ IF ExistingOther(proc[i].user, proc[i].transactionId) # NoId
       THEN Finish(i, Resp("confirm", 409, "conflict", NoId, NoId))
       ELSE /\ proc' = [proc EXCEPT ![i].pc = "checkOwn"]
            /\ lastResp' = NoResp
  /\ UNCHANGED <<tables, mmg_webhook_logs, now, calls>>
  /\ gateway' = "none"
  /\ UNCHANGED mmgVars

\* the pricing check with zero accepted as a price
PriceIsConfiguredOrZero(config, subscriptionType) ==
  /\ config.found
  /\ config.value[subscriptionType] # Undefined
  /\ config.value[subscriptionType] >= 0

\* typeof expectedAmount !== "number" || expectedAmount <= 0, after the
\* check that the config row was found
PriceIsConfigured(config, subscriptionType) ==
  /\ config.found
  /\ config.value[subscriptionType] # Undefined
  /\ config.value[subscriptionType] > 0

\* a lookup that does not inspect how the gateway answered
LookupSucceededAlways(outcome) == TRUE

\* lookupTransaction returns (rather than throws): the login and the lookup
\* request succeeded and transactionStatus is successful
LookupSucceeded(outcome) == outcome = "ok"

\* the confirmation without the amount comparison
AmountMatchesAlways(amount, expectedAmount) == TRUE

\* amount !== expectedAmount is the mismatch
AmountMatches(amount, expectedAmount) == amount = expectedAmount

\* idempotency check, then the price read from system_config (a table
\* these handlers do not write, so its read is taken in the same step)
ConfirmCheckOwn(i, config) ==
  /\ At(i, "confirm", "checkOwn")
  /\ LET existing == ExistingPayment(proc[i].user, proc[i].transactionId) IN
     IF existing # NoId
       THEN Finish(i, Resp("confirm", 200, "alreadyProcessed", existing,
                           payment_transactions[existing].subscription_id))
       ELSE IF ~PriceIsConfigured(config, proc[i].subscriptionType)
       THEN Finish(i, Resp("confirm", 500, "pricing", NoId, NoId))
       ELSE /\ proc' = [proc EXCEPT
                 ![i].pc = "lookup",
                 ![i].expectedAmount = config.value[proc[i].subscriptionType]]
            /\ lastResp' = NoResp
  /\ gateway' = "none"
  /\ UNCHANGED mmgVars
  /\ UNCHANGED <<tables, mmg_webhook_logs, now, calls>>

\* mmgService.lookupTransaction (login, then the lookup request) and the
\* amount comparison
ConfirmLookup(i, outcome, lookupAmount) ==
  /\ At(i, "confirm", "lookup")
  /\ gateway' = "lookup"
  /\ UNCHANGED mmgVars
  /\ LET amount == ParseFloatOr0(lookupAmount) IN
     IF ~LookupSucceeded(outcome)
       THEN Finish(i, Resp("confirm", 400, "lookup_failed", NoId, NoId))
       ELSE IF ~AmountMatches(amount, proc[i].expectedAmount)
       THEN Finish(i, Resp("confirm", 422, "AMOUNT_MISMATCH", NoId, NoId))
       ELSE /\ proc' = [proc EXCEPT ![i].pc = "insertPt",
                                    ![i].amount = amount]
            /\ lastResp' = NoResp
  /\ UNCHANGED <<tables, mmg_webhook_logs, now, calls>>

\* insert the completed payment_transactions row, then the window
ConfirmInsertPt(i, ok) ==
  /\ At(i, "confirm", "insertPt")
  /\ IF ok
       THEN /\ payment_transactions' = Append(payment_transactions,
                 ConfirmedRow(proc[i].user, proc[i].amount,
                              proc[i].transactionId))
            /\ ReadClock
            /\ proc' = [proc EXCEPT ![i].pc = "insertSub",
                                    ![i].paymentId = Len(payment_transactions) + 1,
                                    ![i].startDate = now]
            /\ lastResp' = NoResp
       ELSE /\ Throw(i)
            /\ UNCHANGED <<payment_transactions, now>>
  /\ UNCHANGED <<subscriptions, driver_profiles, rider_profiles,
                 mmg_webhook_logs, calls>>
  /\ gateway' = "none"
  /\ UNCHANGED mmgVars

\* insert into subscriptions
ConfirmInsertSub(i, ok) ==
  /\ At(i, "confirm", "insertSub")
  /\ IF ok
       THEN /\ subscriptions' = Append(subscriptions,
                 SubscriptionRow(proc[i].user, proc[i].amount,
                                 proc[i].startDate, proc[i].transactionId,
                                 proc[i].paymentId))
            /\ proc' = [proc EXCEPT ![i].pc = "linkPt",
                                    ![i].subId = Len(subscriptions) + 1]
            /\ lastResp' = NoResp
       ELSE /\ Throw(i)
            /\ UNCHANGED subscriptions
  /\ UNCHANGED <<payment_transactions, driver_profiles, rider_profiles,
                 mmg_webhook_logs, now, calls>>
  /\ gateway' = "none"
  /\ UNCHANGED mmgVars

\* update({subscription_id}).eq("id", paymentTransaction.id)
ConfirmLinkPt(i, ok) ==
  /\ At(i, "confirm", "linkPt")
  /\ IF ok
       THEN /\ payment_transactions' = [payment_transactions EXCEPT
                 ![proc[i].paymentId].subscription_id = proc[i].subId]
            /\ proc' = [proc EXCEPT ![i].pc = "profile"]
            /\ lastResp' = NoResp
       ELSE /\ Throw(i)
            /\ UNCHANGED payment_transactions
  /\ UNCHANGED <<subscriptions, driver_profiles, rider_profiles,
                 mmg_webhook_logs, now, calls>>
  /\ gateway' = "none"
  /\ UNCHANGED mmgVars

\* update the user's driver_profiles / rider_profiles row, then 200
ConfirmProfile(i, ok) ==
  /\ At(i, "confirm", "profile")
  /\ IF ok
       THEN /\ UpdateProfile(proc[i].user, proc[i].startDate)
            /\ Finish(i, Resp("confirm", 200, "completed", proc[i].paymentId,
                              proc[i].subId))
       ELSE /\ Throw(i)
            /\ UNCHANGED <<driver_profiles, rider_profiles>>
  /\ UNCHANGED <<payment_transactions, subscriptions, mmg_webhook_logs, now,
                 calls>>
  /\ gateway' = "none"
  /\ UNCHANGED mmgVars

\* ----------------------------------------- MMGService.getEcommerceToken
\* The handlers reach this code through lookupTransaction, whose login is
\* seen by them as the outcome of ConfirmLookup only; the cache is module
\* state of mmg.ts and is followed here, call by call.  Times are seconds
\* (the code compares milliseconds); the credentials are configured.

\* data.access_token of a login answered at the request of a call that read
\* the clock at requestedAt, with the lifetime the gateway reported
Token(requestedAt, e) == [requestedAt |-> requestedAt, expires_in |-> e]

\* data.expires_in ?? 120
ExpiresInOf(e) == IF e = Undefined THEN 120 ELSE e

\* { accessToken: data.access_token, expiresAt: now + expiresInMs }
CacheEntry(callNow, e) ==
  [accessToken |-> Token(callNow, e), expiresAt |-> callNow + ExpiresInOf(e)]

\* the cache test without the safety buffer
CacheIsFreshNoBuffer(cache, callNow) ==
  cache # NoCache /\ cache.expiresAt > callNow

\* ecommerceTokenCache && ecommerceTokenCache.expiresAt > now + buffer
CacheIsFresh(cache, callNow) ==
  cache # NoCache /\ cache.expiresAt > callNow + bufferSeconds

\* a failed login that drops the cached token
CacheAfterFailureCleared(cache) == NoCache

\* throw new Error(...) before the cache assignment
CacheAfterFailure(cache) == cache

TokenReturn(kind, token, replaced) ==
  tokenRet' = [kind |-> kind, token |-> token, replaced |-> replaced]

handlerVars == <<payment_transactions, subscriptions, driver_profiles,
                 rider_profiles, mmg_webhook_logs, now, proc, lastResp,
                 gateway, calls>>

\* a call (it takes the first free slot) up to its first await: the clock
\* reading, the cache test, and either the cached token or the login request
GetEcommerceToken(k) ==
  /\ tokenCalls[k] = Idle
  /\ \A j \in Slots : j < k => tokenCalls[j] # Idle
  /\ IF CacheIsFresh(ecommerceTokenCache, clock)
       THEN /\ TokenReturn("cached", ecommerceTokenCache.accessToken, NoCache)
            /\ UNCHANGED tokenCalls
       ELSE /\ tokenCalls' = [tokenCalls EXCEPT ![k] = [now |-> clock]]
            /\ TokenReturn("none", NoToken, NoCache)
  /\ UNCHANGED <<ecommerceTokenCache, clock, codec>>
  /\ UNCHANGED handlerVars

\* the login response arrives: !res.ok throws, otherwise the cache is
\* assigned and the new token returned
LoginResponse(k, ok, e) ==
  /\ tokenCalls[k] # Idle
  /\ tokenCalls' = [tokenCalls EXCEPT ![k] = Idle]
  /\ IF ok
       THEN /\ ecommerceTokenCache' = CacheEntry(tokenCalls[k].now, e)
            /\ TokenReturn("login", Token(tokenCalls[k].now, e),
                            ecommerceTokenCache)
       ELSE /\ ecommerceTokenCache' = CacheAfterFailure(ecommerceTokenCache)
            /\ TokenReturn("throw", NoToken, NoCache)
  /\ UNCHANGED <<clock, codec>>
  /\ UNCHANGED handlerVars

\* time passes
Tick ==
  /\ clock < MaxTicks * TickSeconds
  /\ clock' = clock + TickSeconds
  /\ tokenRet' = [kind |-> "none", token |-> NoToken, replaced |-> NoCache]
  /\ UNCHANGED <<ecommerceTokenCache, tokenCalls, codec>>
  /\ UNCHANGED handlerVars

TokenNext ==
  \/ \E k \in Slots : GetEcommerceToken(k)
  \/ \E k \in Slots, ok \in BOOLEAN, e \in ExpiresIn : LoginResponse(k, ok, e)
  \/ Tick

\* the calls of getEcommerceToken, concurrent, against the passing time
TokenSpec == Init /\ [][TokenNext]_vars

\* ------------------------------------------ encryption codec (admin.ts)
\* A string is a sequence of UTF-16 code units, a Buffer a sequence of
\* bytes, a base64 text a sequence of characters: 0..63 are the base64
\* alphabet in its order (62 is '+', 63 is '/').
Pad == 64              \* '='
Minus == 65            \* '-'
Underscore == 66       \* '_'
Quote == 34            \* '"'

\* the characters of the strings handed to encrypt: 'A', 'E', e acute
\* (Latin-1) and the euro sign (outside Latin-1)
CodeUnits == {65, 69, 233, 8364}

\* the serializable objects: a string value of up to MaxLen characters
RECURSIVE StringsUpTo(_)
StringsUpTo(n) ==
  IF n = 0 THEN {<<>>}
  ELSE LET shorter == StringsUpTo(n - 1) IN
       shorter \cup {Append(s, c) : s \in shorter, c \in CodeUnits}

Objects == StringsUpTo(MaxLen)

\* JSON.stringify of a string value: the characters between quotes (none of
\* CodeUnits needs an escape)
JsonStringify(O) == <<Quote>> \o O \o <<Quote>>

\* JSON.parse: the value of a quoted string, a SyntaxError otherwise
JsonParse(text) ==
  IF Len(text) >= 2 /\ text[1] = Quote /\ text[Len(text)] = Quote
    THEN SubSeq(text, 2, Len(text) - 1)
    ELSE "SyntaxError"

\* Buffer.from(s, 'latin1'): the low byte of every code unit
Latin1Bytes(s) == [n \in 1..Len(s) |-> s[n] % 256]

\* buffer.toString('latin1'): one character per byte
Latin1String(bytes) == bytes

\* crypto.publicEncrypt / privateDecrypt with the key pair: decryption
\* undoes encryption; a byte-wise bijection stands for the cipher
PublicEncrypt(bytes) == [n \in 1..Len(bytes) |-> (bytes[n] + 186) % 256]
PrivateDecrypt(bytes) == [n \in 1..Len(bytes) |-> (bytes[n] + 70) % 256]

\* buffer.toString('base64')
RECURSIVE ToBase64(_)
ToBase64(bytes) ==
  IF Len(bytes) = 0 THEN <<>>
  ELSE IF Len(bytes) = 1
    THEN <<bytes[1] \div 4, (bytes[1] % 4) * 16, Pad, Pad>>
  ELSE IF Len(bytes) = 2
    THEN <<bytes[1] \div 4, (bytes[1] % 4) * 16 + bytes[2] \div 16,
           (bytes[2] % 16) * 4, Pad>>
  ELSE <<bytes[1] \div 4, (bytes[1] % 4) * 16 + bytes[2] \div 16,
         (bytes[2] % 16) * 4 + bytes[3] \div 64, bytes[3] % 64>>
       \o ToBase64(SubSeq(bytes, 4, Len(bytes)))

\* .replace(/=+$/, '')
RECURSIVE StripPadding(_)
StripPadding(text) ==
  IF Len(text) > 0 /\ text[Len(text)] = Pad
    THEN StripPadding(SubSeq(text, 1, Len(text) - 1))
    ELSE text

\* .replace(/\+/g, '-').replace(/\//g, '_')
UrlSafe(text) ==
  [n \in 1..Len(text) |->
     CASE text[n] = 62 -> Minus [] text[n] = 63 -> Underscore
       [] OTHER -> text[n]]

\* .replace(/-/g, '+').replace(/_/g, '/')
UrlUnsafe(text) ==
  [n \in 1..Len(text) |->
     CASE text[n] = Minus -> 62 [] text[n] = Underscore -> 63
       [] OTHER -> text[n]]

\* paddingNeeded = 4 - (length % 4); appended when it is less than 4
Padded(text) ==
  LET paddingNeeded == 4 - (Len(text) % 4) IN
  IF paddingNeeded < 4
    THEN text \o [n \in 1..paddingNeeded |-> Pad]
    ELSE text

\* Buffer.from(text, 'base64'): decoding ends at the first '='
RECURSIVE FromBase64(_)
FromBase64(text) ==
  IF Len(text) < 2 \/ text[1] = Pad \/ text[2] = Pad THEN <<>>
  ELSE LET b1 == text[1] * 4 + text[2] \div 16 IN
       IF Len(text) = 2 \/ text[3] = Pad THEN <<b1>>
       ELSE LET b2 == (text[2] % 16) * 16 + text[3] \div 4 IN
            IF Len(text) = 3 \/ text[4] = Pad THEN <<b1, b2>>
            ELSE <<b1, b2, (text[3] % 4) * 64 + text[4]>>
                 \o FromBase64(SubSeq(text, 5, Len(text)))

\* encrypt(checkoutObject)
encrypt(O) == PublicEncrypt(Latin1Bytes(JsonStringify(O)))

\* toBase64Url(token)
toBase64Url(bytes) == StripPadding(UrlSafe(ToBase64(bytes)))

\* the ciphertext decrypt recovers from the token
CiphertextOf(base64UrlString) == FromBase64(UrlUnsafe(Padded(base64UrlString)))

\* decrypt(base64UrlString)
decrypt(base64UrlString) ==
  JsonParse(Latin1String(PrivateDecrypt(CiphertextOf(base64UrlString))))

tokenVars == <<ecommerceTokenCache, clock, tokenCalls, tokenRet>>

\* an object is about to be sent
CodecInit ==
  /\ payment_transactions = <<>>
  /\ subscriptions = <<>>
  /\ driver_profiles = [u \in {v \in Users : Role[v] = "driver"} |-> TrialProfile]
  /\ rider_profiles = [u \in {v \in Users : Role[v] = "rider"} |-> TrialProfile]
  /\ mmg_webhook_logs = 0
  /\ now = 1
  /\ proc = [i \in Slots |-> Idle]
  /\ lastResp = NoResp
  /\ gateway = "none"
  /\ calls = 0
  /\ ecommerceTokenCache = NoCache
  /\ clock = 0
  /\ tokenCalls = [k \in Slots |-> Idle]
  /\ tokenRet = [kind |-> "none", token |-> NoToken, replaced |-> NoCache]
  /\ \E O \in Objects : codec = [stage |-> "object", O |-> O]

\* const encrypted = encrypt(tokenParams)
CodecEncrypt ==
  /\ codec.stage = "object"
  /\ codec' = [stage |-> "encrypted", O |-> codec.O,
               ciphertext |-> encrypt(codec.O)]
  /\ UNCHANGED tokenVars
  /\ UNCHANGED handlerVars

\* const encodedToken = toBase64Url(token)
CodecToBase64Url ==
  /\ codec.stage = "encrypted"
  /\ codec' = [stage |-> "token", O |-> codec.O,
               ciphertext |-> codec.ciphertext,
               token |-> toBase64Url(codec.ciphertext)]
  /\ UNCHANGED tokenVars
  /\ UNCHANGED handlerVars

\* decryptedData = decrypt(encryptedToken)
CodecDecrypt ==
  /\ codec.stage = "token"
  /\ codec' = [stage |-> "decrypted", O |-> codec.O,
               ciphertext |-> codec.ciphertext, token |-> codec.token,
               recovered |-> CiphertextOf(codec.token),
               out |-> decrypt(codec.token)]
  /\ UNCHANGED tokenVars
  /\ UNCHANGED handlerVars

CodecNext == CodecEncrypt \/ CodecToBase64Url \/ CodecDecrypt

\* one object through encrypt, toBase64Url and decrypt
CodecSpec == CodecInit /\ [][CodecNext]_vars

\* ------------------------------------------------------- request inputs
CheckoutInputs ==
  {<<"u1", 0>>, <<NULL, 5000>>} \cup {<<u, 5000>> : u \in Users}

\* the merchant correlation ids the gateway knows: rows made by checkout
CheckoutIds ==
  {p \in PtIds :
     "transactionStatus" \notin DOMAIN payment_transactions[p].gateway_response}

\* <<token, merchantTransactionId, transactionId, ResultCode, ResultMessage>>
CallbackInputs ==
  {<<"missing", NoId, NoId, "", "">>, <<"undecryptable", NoId, NoId, "", "">>,
   <<"ok", NoId, 1, "0", "">>}
  \cup {<<"ok", mid, GatewayIdOf(mid), r[1], r[2]>> :
          mid \in CheckoutIds \cup {UnknownId}, r \in GatewayResults}

\* <<user, transactionId, subscriptionType>>
ConfirmInputs ==
  {<<"u1", NoId, "rider_monthly">>, <<"u1", 1, "yearly">>,
   <<NULL, 1, "rider_monthly">>}
  \cup {<<u, g, t>> : u \in Users \cup Staff, g \in GatewayIds,
                       t \in SUBSCRIPTION_TYPES}

\* <<outcome, amount>> of the gateway lookup
LookupInputs ==
  {<<o, NaN>> : o \in LookupOutcomes \ {"ok"}}
  \cup {<<"ok", a>> : a \in LookupAmounts \cup {NaN}}

Next ==
  \/ \E i \in Slots, c \in CheckoutInputs : CheckoutStart(i, c[1], c[2])
  \/ \E i \in Slots, o \in {"ok", "insert_error", "session_error"} :
        CheckoutInsert(i, o)
  \/ \E i \in Slots, c \in CallbackInputs, logOk \in BOOLEAN :
        CallbackStart(i, c[1], c[2], c[3], c[4], c[5], logOk)
  \/ \E i \in Slots, ok \in BOOLEAN : CallbackFetch(i, ok)
  \/ \E i \in Slots, ok \in BOOLEAN : CallbackInsertSub(i, ok)
  \/ \E i \in Slots, ok \in BOOLEAN : CallbackUpdatePt(i, ok)
  \/ \E i \in Slots, ok \in BOOLEAN : CallbackProfile(i, ok)
  \/ \E i \in Slots, ok \in BOOLEAN : CallbackMarkFailed(i, ok)
  \/ \E i \in Slots, c \in CallbackInputs, logOk \in BOOLEAN :
        PostStart(i, c[1], c[2], c[3], c[4], c[5], logOk)
  \/ \E i \in Slots, ok \in BOOLEAN : PostFetch(i, ok)
  \/ \E i \in Slots, c \in ConfirmInputs : ConfirmStart(i, c[1], c[2], c[3])
  \/ \E i \in Slots : ConfirmCheckOther(i)
  \/ \E i \in Slots, config \in ConfigRows : ConfirmCheckOwn(i, config)
  \/ \E i \in Slots, l \in LookupInputs : ConfirmLookup(i, l[1], l[2])
  \/ \E i \in Slots, ok \in BOOLEAN : ConfirmInsertPt(i, ok)
  \/ \E i \in Slots, ok \in BOOLEAN : ConfirmInsertSub(i, ok)
  \/ \E i \in Slots, ok \in BOOLEAN : ConfirmLinkPt(i, ok)
  \/ \E i \in Slots, ok \in BOOLEAN : ConfirmProfile(i, ok)

Spec == Init /\ [][Next]_vars

\* values of the ResultCode field: zero, other codes, strings that parse
\* to zero, strings with no digits, and the field missing
ResultCodes == {"0", "1", "00", "0x", "", "abc", NULL}

\* callbacks for the payments checked out, with every kind of result code
ClassifyInputs ==
  {<<"ok", mid, GatewayIdOf(mid), rc, "">> :
     mid \in CheckoutIds, rc \in ResultCodes}

ClassifyNext ==
  \/ \E i \in Slots, c \in CheckoutInputs : CheckoutStart(i, c[1], c[2])
  \/ \E i \in Slots, o \in {"ok", "insert_error", "session_error"} :
        CheckoutInsert(i, o)
  \/ \E i \in Slots, c \in ClassifyInputs, logOk \in BOOLEAN :
        CallbackStart(i, c[1], c[2], c[3], c[4], c[5], logOk)
  \/ \E i \in Slots, ok \in BOOLEAN : CallbackFetch(i, ok)
  \/ \E i \in Slots, ok \in BOOLEAN : CallbackInsertSub(i, ok)
  \/ \E i \in Slots, ok \in BOOLEAN : CallbackUpdatePt(i, ok)
  \/ \E i \in Slots, ok \in BOOLEAN : CallbackProfile(i, ok)
  \/ \E i \in Slots, ok \in BOOLEAN : CallbackMarkFailed(i, ok)

\* checkouts and the callbacks the gateway may deliver for them
ClassifySpec == Init /\ [][ClassifyNext]_vars

\* the gateway's traffic alone: checkout sessions and their callbacks, with no
\* client confirmation in flight (the callback handler never reads or writes
\* a row the confirmation created)
CallbackNext ==
  \/ \E i \in Slots, c \in CheckoutInputs : CheckoutStart(i, c[1], c[2])
  \/ \E i \in Slots, o \in {"ok", "insert_error", "session_error"} :
        CheckoutInsert(i, o)
  \/ \E i \in Slots, c \in CallbackInputs, logOk \in BOOLEAN :
        CallbackStart(i, c[1], c[2], c[3], c[4], c[5], logOk)
  \/ \E i \in Slots, ok \in BOOLEAN : CallbackFetch(i, ok)
  \/ \E i \in Slots, ok \in BOOLEAN : CallbackInsertSub(i, ok)
  \/ \E i \in Slots, ok \in BOOLEAN : CallbackUpdatePt(i, ok)
  \/ \E i \in Slots, ok \in BOOLEAN : CallbackProfile(i, ok)
  \/ \E i \in Slots, ok \in BOOLEAN : CallbackMarkFailed(i, ok)

CallbackSpec == Init /\ [][CallbackNext]_vars

\* the state after one checkout: a user's first payment, pending
RetryInit ==
  /\ \E u \in Users : payment_transactions = <<PendingRow(u, 5000)>>
  /\ subscriptions = <<>>
  /\ driver_profiles = [u \in {v \in Users : Role[v] = "driver"} |-> TrialProfile]
  /\ rider_profiles = [u \in {v \in Users : Role[v] = "rider"} |-> TrialProfile]
  /\ mmg_webhook_logs = 0
  /\ now = 1
  /\ proc = [i \in Slots |-> Idle]
  /\ lastResp = NoResp
  /\ gateway = "none"
  /\ calls = 0
  /\ MmgInit

\* checkouts and callbacks handled one after the other: a request is
\* received when the previous one has been answered
RetryNext ==
  \/ \E i \in Slots, c \in CheckoutInputs :
        (\A j \in Slots : proc[j] = Idle) /\ CheckoutStart(i, c[1], c[2])
  \/ \E i \in Slots, o \in {"ok", "insert_error", "session_error"} :
        CheckoutInsert(i, o)
  \/ \E i \in Slots, c \in CallbackInputs, logOk \in BOOLEAN :
        /\ \A j \in Slots : proc[j] = Idle
        /\ CallbackStart(i, c[1], c[2], c[3], c[4], c[5], logOk)
  \/ \E i \in Slots, ok \in BOOLEAN : CallbackFetch(i, ok)
  \/ \E i \in Slots, ok \in BOOLEAN : CallbackInsertSub(i, ok)
  \/ \E i \in Slots, ok \in BOOLEAN : CallbackUpdatePt(i, ok)
  \/ \E i \in Slots, ok \in BOOLEAN : CallbackProfile(i, ok)
  \/ \E i \in Slots, ok \in BOOLEAN : CallbackMarkFailed(i, ok)

\* the requests that follow a first checkout
RetrySpec == RetryInit /\ [][RetryNext]_vars

\* every endpoint, one request at a time: a request is received when the
\* previous one has been answered
SerialNext ==
  \/ \E i \in Slots, c \in CheckoutInputs :
        (\A j \in Slots : proc[j] = Idle) /\ CheckoutStart(i, c[1], c[2])
  \/ \E i \in Slots, o \in {"ok", "insert_error", "session_error"} :
        CheckoutInsert(i, o)
  \/ \E i \in Slots, c \in CallbackInputs, logOk \in BOOLEAN :
        /\ \A j \in Slots : proc[j] = Idle
        /\ CallbackStart(i, c[1], c[2], c[3], c[4], c[5], logOk)
  \/ \E i \in Slots, ok \in BOOLEAN : CallbackFetch(i, ok)
  \/ \E i \in Slots, ok \in BOOLEAN : CallbackInsertSub(i, ok)
  \/ \E i \in Slots, ok \in BOOLEAN : CallbackUpdatePt(i, ok)
  \/ \E i \in Slots, ok \in BOOLEAN : CallbackProfile(i, ok)
  \/ \E i \in Slots, ok \in BOOLEAN : CallbackMarkFailed(i, ok)
  \/ \E i \in Slots, c \in CallbackInputs, logOk \in BOOLEAN :
        /\ \A j \in Slots : proc[j] = Idle
        /\ PostStart(i, c[1], c[2], c[3], c[4], c[5], logOk)
  \/ \E i \in Slots, ok \in BOOLEAN : PostFetch(i, ok)
  \/ \E i \in Slots, c \in ConfirmInputs :
        /\ \A j \in Slots : proc[j] = Idle
        /\ ConfirmStart(i, c[1], c[2], c[3])
  \/ \E i \in Slots : ConfirmCheckOther(i)
  \/ \E i \in Slots, config \in ConfigRows : ConfirmCheckOwn(i, config)
  \/ \E i \in Slots, l \in LookupInputs : ConfirmLookup(i, l[1], l[2])
  \/ \E i \in Slots, ok \in BOOLEAN : ConfirmInsertPt(i, ok)
  \/ \E i \in Slots, ok \in BOOLEAN : ConfirmInsertSub(i, ok)
  \/ \E i \in Slots, ok \in BOOLEAN : ConfirmLinkPt(i, ok)
  \/ \E i \in Slots, ok \in BOOLEAN : ConfirmProfile(i, ok)

SerialSpec == Init /\ [][SerialNext]_vars

\* the client confirmations alone, with no checkout or callback in flight
ConfirmNext ==
  \/ \E i \in Slots, c \in ConfirmInputs :
        calls < MaxConfirmCalls /\ ConfirmStart(i, c[1], c[2], c[3])
  \/ \E i \in Slots : ConfirmCheckOther(i)
  \/ \E i \in Slots, config \in ConfigRows : ConfirmCheckOwn(i, config)
  \/ \E i \in Slots, l \in LookupInputs : ConfirmLookup(i, l[1], l[2])
  \/ \E i \in Slots, ok \in BOOLEAN : ConfirmInsertPt(i, ok)
  \/ \E i \in Slots, ok \in BOOLEAN : ConfirmInsertSub(i, ok)
  \/ \E i \in Slots, ok \in BOOLEAN : ConfirmLinkPt(i, ok)
  \/ \E i \in Slots, ok \in BOOLEAN : ConfirmProfile(i, ok)

ConfirmSpec == Init /\ [][ConfirmNext]_vars

\* the state after the rider's checkout: the payment is pending
PendingInit ==
  /\ payment_transactions = <<PendingRow("u1", 5000)>>
  /\ subscriptions = <<>>
  /\ driver_profiles = [u \in {v \in Users : Role[v] = "driver"} |-> TrialProfile]
  /\ rider_profiles = [u \in {v \in Users : Role[v] = "rider"} |-> TrialProfile]
  /\ mmg_webhook_logs = 0
  /\ now = 1
  /\ proc = [i \in Slots |-> Idle]
  /\ lastResp = NoResp
  /\ gateway = "none"
  /\ calls = 0
  /\ MmgInit

\* the client confirmations that arrive while a checkout payment is pending
PendingConfirmSpec == PendingInit /\ [][ConfirmNext]_vars

\* ------------------------------------------------------------ properties
\* the step taken moves the invocation in slot i
StepOf(i) == proc'[i] # proc[i]

\* the invocation of slot i is a callback working on payment p
CallbackOn(i, p) ==
  /\ proc[i] # Idle /\ proc[i].op = "callback"
  /\ proc[i].payload.merchantTransactionId = p

SubsFor(p) == {s \in SubIds : subscriptions[s].forPayment = p}

AllIdle == \A i \in Slots : proc[i] = Idle

\* C1: callbacks with result code 0 that run concurrently for the same
\* payment never create a Subscription each: of the invocations in flight
\* for one payment at most one has inserted a subscriptions row.
NoDoubleCreditUnderRaces ==
  \A i, j \in Slots :
    (/\ i # j
     /\ \E p \in PtIds : CallbackOn(i, p) /\ CallbackOn(j, p)
     /\ proc[i].resultCode = 0 /\ proc[j].resultCode = 0)
    => ~(proc[i].subId # NoId /\ proc[j].subId # NoId)

OneCompletedPerUserAndGatewayId ==
  \A p, q \in PtIds :
    (/\ payment_transactions[p].status = "completed"
     /\ payment_transactions[q].status = "completed"
     /\ payment_transactions[p].user_id = payment_transactions[q].user_id
     /\ payment_transactions[p].mmg_transaction_id # NoId
     /\ payment_transactions[p].mmg_transaction_id =
          payment_transactions[q].mmg_transaction_id)
    => p = q

\* all three effects of a successful reconciliation of payment p
AllApplied(p) ==
  /\ payment_transactions[p].status = "completed"
  /\ \E s \in SubIds :
       /\ SubsFor(p) = {s}
       /\ payment_transactions[p].subscription_id = s
       /\ LET profile == ProfileOf(payment_transactions[p].user_id) IN
          /\ profile.subscription_status = "active"
          /\ \E t \in SubIds :
               /\ subscriptions[t].user_id = subscriptions[s].user_id
               /\ subscriptions[t].start_date >= subscriptions[s].start_date
               /\ profile.subscription_start_date = subscriptions[t].start_date
               /\ profile.subscription_end_date = subscriptions[t].end_date

\* none of the effects of a successful reconciliation of payment p
NoneApplied(p) ==
  /\ payment_transactions[p].status # "completed"
  /\ payment_transactions[p].subscription_id = NoId
  /\ SubsFor(p) = {}

\* C4: in every state, for every payment, the Subscription row, the
\* completed and linked payment row and the active profile are all present
\* or all absent.
SuccessApplicationIsAtomic ==
  \A p \in PtIds : AllApplied(p) \/ NoneApplied(p)

\* C5: no step of a callback changes the status, the linked subscription,
\* the gateway transaction id or the error message of a completed payment.
CompletedIsTerminal ==
  [][\A i \in Slots : \A p \in PtIds :
       (/\ proc[i] # Idle /\ proc[i].op = "callback" /\ StepOf(i)
        /\ payment_transactions[p].status = "completed")
       => /\ payment_transactions'[p].status = "completed"
          /\ payment_transactions'[p].subscription_id =
               payment_transactions[p].subscription_id
          /\ payment_transactions'[p].mmg_transaction_id =
               payment_transactions[p].mmg_transaction_id
          /\ payment_transactions'[p].error_message =
               payment_transactions[p].error_message]_vars

\* C6: a failed payment stays failed and no Subscription is created for it.
FailedIsTerminal ==
  [][\A p \in PtIds :
       payment_transactions[p].status = "failed"
       => /\ payment_transactions'[p].status = "failed"
          /\ \A s \in 1..Len(subscriptions') :
               subscriptions'[s].forPayment = p => s \in SubIds]_vars

\* C7: no step of a callback with a non-zero result code writes
\* subscriptions or a profile; the step that redirects to the failure page
\* has set the payment to failed with the gateway transaction id, the
\* payload and the failure message ('Payment failed' when the gateway sent
\* none) and has left every other row alone; when its update fails the
\* payment row is unchanged and the answer is the 500.
FailureDoesNotActivate ==
  [][\A i \in Slots :
       LET inv == IF proc[i] = Idle THEN proc'[i] ELSE proc[i] IN
       (/\ StepOf(i) /\ inv.op = "callback" /\ inv.resultCode # 0)
       => /\ UNCHANGED <<subscriptions, driver_profiles, rider_profiles>>
          /\ (proc[i] # Idle /\ proc[i].pc = "markFailed") =>
               LET p == inv.payload.merchantTransactionId IN
               /\ proc'[i] = Idle
               /\ lastResp'.status \in {303, 500}
               /\ lastResp'.status = 500 =>
                    UNCHANGED payment_transactions
               /\ lastResp'.status = 303 =>
                    /\ lastResp'.detail = "failed"
                    /\ Len(payment_transactions') = Len(payment_transactions)
                    /\ \A q \in PtIds \ {p} :
                         payment_transactions'[q] = payment_transactions[q]
                    /\ payment_transactions'[p].status = "failed"
                    /\ payment_transactions'[p].mmg_transaction_id =
                         inv.payload.transactionId
                    /\ payment_transactions'[p].gateway_response = inv.payload
                    /\ payment_transactions'[p].error_message =
                         (IF inv.payload.ResultMessage = ""
                            THEN "Payment failed"
                            ELSE inv.payload.ResultMessage)
                    /\ payment_transactions'[p].subscription_id =
                         payment_transactions[p].subscription_id
                    /\ payment_transactions'[p].user_id =
                         payment_transactions[p].user_id]_vars

\* a pending payment was marked failed with the gateway's message; nothing
\* was activated
FailureWitness ==
  /\ lastResp.op = "callback" /\ lastResp.detail = "failed"
  /\ payment_transactions[lastResp.paymentId].status = "failed"
  /\ payment_transactions[lastResp.paymentId].error_message = "declined"
  /\ payment_transactions[lastResp.paymentId].subscription_id = NoId
  /\ subscriptions = <<>>
  /\ \A u \in Users : ProfileOf(u).subscription_status = "trial"

\* C8: when a callback with result code 0 has been answered with the
\* success redirect, no invocation is in flight and no failure callback
\* was applied to the payment, the payment is completed, exactly one
\* Subscription exists for it and the owner's profile is active.
RetryAfterPartialFailureConverges ==
  (/\ lastResp.op = "callback" /\ lastResp.status = 303
   /\ lastResp.detail \in {"success", "already"}
   /\ AllIdle
   /\ payment_transactions[lastResp.paymentId].error_message = NULL)
  => LET p == lastResp.paymentId IN
     /\ payment_transactions[p].status = "completed"
     /\ Cardinality(SubsFor(p)) = 1
     /\ ProfileOf(payment_transactions[p].user_id).subscription_status
          = "active"

\* C9: a gateway transaction id is on payment_transactions rows of at most
\* one user.
GatewayIdHasOneUser ==
  \A p, q \in PtIds :
    (/\ payment_transactions[p].mmg_transaction_id # NoId
     /\ payment_transactions[p].mmg_transaction_id =
          payment_transactions[q].mmg_transaction_id)
    => payment_transactions[p].user_id = payment_transactions[q].user_id

\* C10: a confirmation whose transactionId is on a completed payment of a
\* different user ends at the conflict check with 409 and writes nothing.
CrossUserConflict ==
  [][\A i \in Slots :
       (/\ proc[i] # Idle /\ proc[i].op = "confirm"
        /\ proc[i].pc = "checkOther" /\ StepOf(i)
        /\ \E p \in PtIds :
             /\ payment_transactions[p].status = "completed"
             /\ payment_transactions[p].mmg_transaction_id =
                  proc[i].transactionId
             /\ payment_transactions[p].user_id # proc[i].user)
       => /\ lastResp'.status = 409
          /\ proc'[i] = Idle
          /\ UNCHANGED tables]_vars

\* the invocation of slot i is a confirmation suspended at pc
ConfirmAt(i, pc) ==
  proc[i] # Idle /\ proc[i].op = "confirm" /\ proc[i].pc = pc

\* the completed payments user u holds for gateway transaction id g
CompletedFor(u, g) ==
  {p \in PtIds : /\ payment_transactions[p].user_id = u
                 /\ payment_transactions[p].mmg_transaction_id = g
                 /\ payment_transactions[p].status = "completed"}

\* C11: a confirmation whose user already holds a completed payment for the
\* submitted transactionId writes nothing and sends nothing to the gateway
\* at its two checks, is over at the second one at the latest, and is
\* answered 200 alreadyProcessed with the id of that payment and of its
\* subscription.
ConfirmationReplayIsIdempotent ==
  [][\A i \in Slots :
       (/\ (ConfirmAt(i, "checkOther") \/ ConfirmAt(i, "checkOwn"))
        /\ StepOf(i)
        /\ CompletedFor(proc[i].user, proc[i].transactionId) # {})
       => /\ UNCHANGED tables
          /\ gateway' = "none"
          /\ ConfirmAt(i, "checkOwn") => proc'[i] = Idle
          /\ proc'[i] = Idle =>
               /\ lastResp'.status = 200
               /\ lastResp'.detail = "alreadyProcessed"
               /\ lastResp'.paymentId \in
                    CompletedFor(proc[i].user, proc[i].transactionId)
               /\ lastResp'.subscriptionId =
                    payment_transactions[lastResp'.paymentId].subscription_id
     ]_vars

\* the confirmation of slot i is at its idempotency check and holds no
\* completed payment for its transactionId
NotReplay(i) ==
  /\ ConfirmAt(i, "checkOwn")
  /\ CompletedFor(proc[i].user, proc[i].transactionId) = {}

\* C12: when the lookup returns a successful transaction whose amount is not
\* the configured price of the plan, the confirmation ends with 422 and the
\* code AMOUNT_MISMATCH, and payment_transactions, subscriptions and the
\* profiles are unchanged.
AmountMismatchIsSpecific ==
  [][\A i \in Slots : (ConfirmAt(i, "lookup") /\ StepOf(i)) =>
       \A a \in LookupAmounts \cup {NaN} :
         (/\ (IF a = NaN THEN 0 ELSE a) # proc[i].expectedAmount
          /\ ConfirmLookup(i, "ok", a))
         => /\ lastResp' = Resp("confirm", 422, "AMOUNT_MISMATCH", NoId, NoId)
            /\ proc'[i] = Idle
            /\ UNCHANGED tables]_vars

\* a confirmation was answered 422 after the lookup and nothing was written
AmountMismatchWitness ==
  /\ lastResp.op = "confirm" /\ lastResp.status = 422
  /\ lastResp.detail = "AMOUNT_MISMATCH"
  /\ gateway = "lookup"
  /\ payment_transactions = <<>> /\ subscriptions = <<>>
  /\ \A u \in Users : ProfileOf(u).subscription_status = "trial"

\* a step in which a confirmation request arrives: it is answered at once
\* or it is suspended in slot i
ConfirmReceived(i) == lastResp'.op = "confirm" \/ StepOf(i)

\* C13: a confirmation whose subscriptionType is not the plan of the user's
\* role is answered 400 on receipt: nothing is sent to the gateway, nothing
\* is written, and the request is over (no invocation is left suspended).
RolePlanCoupling ==
  [][\A i \in Slots : (proc[i] = Idle /\ ConfirmReceived(i)) =>
       \A u \in Users \cup Staff, g \in GatewayIds, t \in SUBSCRIPTION_TYPES :
         (/\ \/ t = "rider_monthly" /\ Role[u] # "rider"
             \/ t = "driver_monthly" /\ Role[u] # "driver"
          /\ ConfirmStart(i, u, g, t))
         => /\ lastResp'.op = "confirm" /\ lastResp'.status = 400
            /\ gateway' = "none"
            /\ UNCHANGED <<tables, proc>>]_vars

\* a confirmation was rejected for its plan and left nothing behind
RolePlanWitness ==
  /\ lastResp.op = "confirm" /\ lastResp.status = 400
  /\ lastResp.detail = "role_mismatch"
  /\ gateway = "none" /\ AllIdle
  /\ payment_transactions = <<>> /\ subscriptions = <<>>

\* C14: a confirmation writes nothing and sends nothing to the gateway
\* before its lookup; it reaches its first write only from the lookup step,
\* with the looked-up amount equal to the configured price; when the login
\* or the lookup fails it ends with the 400 of the lookup (not the 422) and
\* the tables are unchanged.
NoWriteBeforeLookup ==
  [][\A i \in Slots :
       /\ (StepOf(i) /\ (proc[i] = Idle \/ ConfirmAt(i, "checkOther")
                                         \/ ConfirmAt(i, "checkOwn")))
            => UNCHANGED tables /\ gateway' = "none"
       /\ (proc'[i] # Idle /\ proc'[i].op = "confirm"
            /\ proc'[i].pc = "insertPt" /\ StepOf(i))
            => /\ ConfirmAt(i, "lookup")
               /\ gateway' = "lookup"
               /\ proc'[i].amount = proc[i].expectedAmount
               /\ proc'[i].amount > 0
               /\ UNCHANGED tables
       /\ (ConfirmAt(i, "lookup") /\ StepOf(i)) =>
            \A o \in LookupOutcomes \ {"ok"}, a \in LookupAmounts \cup {NaN} :
              ConfirmLookup(i, o, a)
              => /\ lastResp' = Resp("confirm", 400, "lookup_failed", NoId,
                                     NoId)
                 /\ proc'[i] = Idle
                 /\ UNCHANGED tables]_vars

\* a confirmation was answered 400 after a failed lookup; nothing written
LookupFailedWitness ==
  /\ lastResp.op = "confirm" /\ lastResp.status = 400
  /\ lastResp.detail = "lookup_failed"
  /\ gateway = "lookup"
  /\ payment_transactions = <<>> /\ subscriptions = <<>>
  /\ \A u \in Users : ProfileOf(u).subscription_status = "trial"

\* C15: when the price config row is missing, has no entry for the plan or
\* the entry is not a positive number, a confirmation that is not a replay
\* ends with 500, nothing is sent to the gateway and nothing is written.
PricingFailsClosed ==
  [][\A i \in Slots : (NotReplay(i) /\ StepOf(i)) =>
       \A config \in ConfigRows :
         (/\ \/ ~config.found
             \/ config.value[proc[i].subscriptionType] = Undefined
             \/ config.value[proc[i].subscriptionType] <= 0
          /\ ConfirmCheckOwn(i, config))
         => /\ lastResp' = Resp("confirm", 500, "pricing", NoId, NoId)
            /\ gateway' = "none"
            /\ proc'[i] = Idle
            /\ UNCHANGED tables]_vars

\* a confirmation was answered 500 for the pricing, without a lookup
PricingWitness ==
  /\ lastResp.op = "confirm" /\ lastResp.status = 500
  /\ lastResp.detail = "pricing"
  /\ gateway = "none"
  /\ payment_transactions = <<>> /\ subscriptions = <<>>
  /\ \A u \in Users : ProfileOf(u).subscription_status = "trial"

\* the active subscriptions of user u
ActiveSubsOf(u) ==
  {s \in SubIds : subscriptions[s].user_id = u
                  /\ subscriptions[s].status = "active"}

\* after the first checkout exactly three invocations ran: the callback that
\* failed payment 1, the checkout that made payment 2 for the same user and
\* the callback answered with the success redirect for payment 2
RetryScenario ==
  /\ calls = 3 /\ AllIdle
  /\ Len(payment_transactions) = 2
  /\ payment_transactions[1].status = "failed"
  /\ payment_transactions[2].user_id = payment_transactions[1].user_id
  /\ lastResp.op = "callback" /\ lastResp.detail = "success"
  /\ lastResp.paymentId = 2

\* C16: after payment 1 failed, the user checked out again and payment 2
\* got its result-code-0 callback, the user has exactly one active
\* Subscription, it was created for payment 2 and payment 2 is completed and
\* linked to it, and payment 1 is still failed and unlinked.
FailedThenRetry ==
  RetryScenario =>
    LET u == payment_transactions[1].user_id IN
    /\ Cardinality(ActiveSubsOf(u)) = 1
    /\ \A s \in ActiveSubsOf(u) :
         /\ subscriptions[s].forPayment = 2
         /\ payment_transactions[2].subscription_id = s
    /\ payment_transactions[2].status = "completed"
    /\ payment_transactions[1].status = "failed"
    /\ payment_transactions[1].subscription_id = NoId
    /\ SubsFor(1) = {}

\* the scenario has run to its end with the gateway's message on payment 1
FailedThenRetryWitness ==
  /\ RetryScenario
  /\ payment_transactions[1].error_message = "declined"
  /\ ProfileOf(payment_transactions[2].user_id).subscription_status = "active"

\* C17: a checkout that passed validation leaves every existing
\* payment_transactions row, the subscriptions and the profiles as they are
\* and appends at most one row; the row it appends is pending, owned by the
\* user, carries the amount and has no gateway id, no subscription and no
\* error; a 200 answer carries the id of that new row as the correlation
\* id, and without a new row the answer is the 500.
CheckoutCreatesNewPending ==
  [][\A i \in Slots :
       /\ (StepOf(i) /\ proc[i] = Idle /\ proc'[i].op = "checkout")
            => UNCHANGED tables
       /\ (StepOf(i) /\ proc[i] # Idle /\ proc[i].op = "checkout") =>
            LET n == Len(payment_transactions) IN
            /\ proc'[i] = Idle
            /\ UNCHANGED <<subscriptions, driver_profiles, rider_profiles>>
            /\ Len(payment_transactions') \in {n, n + 1}
            /\ \A p \in PtIds :
                 payment_transactions'[p] = payment_transactions[p]
            /\ Len(payment_transactions') = n => lastResp'.status = 500
            /\ lastResp'.status \in {200, 500}
            /\ lastResp'.status = 200 =>
                 /\ Len(payment_transactions') = n + 1
                 /\ lastResp'.paymentId = n + 1
            /\ Len(payment_transactions') = n + 1 =>
                 LET row == payment_transactions'[n + 1] IN
                 /\ row.status = "pending"
                 /\ row.user_id = proc[i].user
                 /\ row.amount = proc[i].amount
                 /\ row.mmg_transaction_id = NoId
                 /\ row.subscription_id = NoId
                 /\ row.error_message = NULL]_vars

\* a user whose first payment failed checked out again: the failed row is
\* still there and the answer names the new pending row
CheckoutWitness ==
  /\ lastResp.op = "checkout" /\ lastResp.status = 200
  /\ lastResp.paymentId = 2
  /\ Len(payment_transactions) = 2
  /\ payment_transactions[1].status = "failed"
  /\ payment_transactions[2].status = "pending"
  /\ payment_transactions[2].user_id = payment_transactions[1].user_id

\* C18: a callback is answered with a redirect, or with a 400 when its
\* token is missing, undecryptable or lacks the correlation id.
CallbackAlwaysRedirects ==
  lastResp.op = "callback" =>
    \/ lastResp.status = 303
    \/ /\ lastResp.status = 400
       /\ lastResp.detail \in {"missing_token", "decrypt_failed", "missing_id"}

\* the request in c decrypts and carries a merchant correlation id
Loggable(c) == c[1] = "ok" /\ c[2] # NoId

\* a step in which slot i takes a callback up to its payment lookup
CallbackAccepted(i) ==
  /\ proc[i] = Idle /\ proc'[i] # Idle
  /\ proc'[i].op = "callback" /\ proc'[i].pc = "fetch"

\* C19 as stated: every callback that decrypts and carries a correlation id
\* appends exactly one mmg_webhook_logs row before the payment lookup, every
\* other step appends none, and no step removes a row.
WebhookLogUnconditional ==
  [][/\ \A i \in Slots :
          CallbackAccepted(i) => mmg_webhook_logs' = mmg_webhook_logs + 1
     /\ (\A i \in Slots : ~CallbackAccepted(i))
          => mmg_webhook_logs' = mmg_webhook_logs]_vars

\* C19 amended: the row count never decreases and grows by at most one in a
\* step, and only in the step that takes a callback up to its payment
\* lookup; a callback that decrypts and carries a correlation id appends one
\* row when its insert succeeds and none when the insert fails, whatever its
\* result code and whether or not its payment exists; a callback whose
\* token is missing or undecryptable or lacks the id appends none.
WebhookLogAppendOnly ==
  [][/\ mmg_webhook_logs' \in {mmg_webhook_logs, mmg_webhook_logs + 1}
     /\ mmg_webhook_logs' # mmg_webhook_logs
          => \E i \in Slots : CallbackAccepted(i)
     /\ \A i \in Slots : proc[i] = Idle =>
          \A c \in CallbackInputs :
            /\ (Loggable(c)
                 /\ CallbackStart(i, c[1], c[2], c[3], c[4], c[5], TRUE))
                 => /\ mmg_webhook_logs' = mmg_webhook_logs + 1
                    /\ CallbackAccepted(i)
            /\ (Loggable(c)
                 /\ CallbackStart(i, c[1], c[2], c[3], c[4], c[5], FALSE))
                 => /\ mmg_webhook_logs' = mmg_webhook_logs
                    /\ CallbackAccepted(i)
            /\ \A logOk \in BOOLEAN :
                 (~Loggable(c)
                  /\ CallbackStart(i, c[1], c[2], c[3], c[4], c[5], logOk))
                 => /\ mmg_webhook_logs' = mmg_webhook_logs
                    /\ lastResp'.status = 400]_vars

\* two callbacks were logged, the last of them one that failed its
\* payment, one whose payment is unknown or a replay of a completed one
WebhookLogWitness ==
  /\ mmg_webhook_logs = 2 /\ calls = 3
  /\ lastResp.op = "callback"
  /\ lastResp.detail \in {"not_found", "already", "failed"}

\* C20: the step that takes a callback and issues the audit insert leaves
\* the same invocation, response and tables behind whether the insert
\* succeeds or fails (they are a function of the request alone), and no
\* later step of a callback touches mmg_webhook_logs.
LogFailureKeepsOutcome ==
  [][\A i \in Slots :
       /\ proc[i] = Idle =>
            \A c \in CallbackInputs, logOk \in BOOLEAN :
              (Loggable(c)
               /\ CallbackStart(i, c[1], c[2], c[3], c[4], c[5], logOk))
              => /\ proc'[i] = [op |-> "callback", pc |-> "fetch",
                                payload |-> [merchantTransactionId |-> c[2],
                                             transactionId |-> c[3],
                                             ResultCode |-> c[4],
                                             ResultMessage |-> c[5]],
                                resultCode |-> IF c[4] = "0" THEN 0 ELSE 1,
                                user |-> NULL, amount |-> 0,
                                startDate |-> NoId, subId |-> NoId]
                 /\ \A j \in Slots \ {i} : proc'[j] = proc[j]
                 /\ lastResp' = NoResp
                 /\ UNCHANGED <<tables, now>>
       /\ (proc[i] # Idle /\ proc[i].op = "callback" /\ StepOf(i))
            => UNCHANGED mmg_webhook_logs]_vars

\* a callback whose audit insert failed was reconciled to the success
\* redirect
LogFailureWitness ==
  /\ mmg_webhook_logs = 0
  /\ lastResp.op = "callback" /\ lastResp.detail = "success"
  /\ payment_transactions[lastResp.paymentId].status = "completed"
  /\ ProfileOf(payment_transactions[lastResp.paymentId].user_id)
       .subscription_status = "active"

\* the expiry of a token: the clock reading of the call that obtained it
\* plus the lifetime the gateway reported for it
ExpiryOf(token) == token.requestedAt + ExpiresInOf(token.expires_in)

\* the cache holds a token and the time is earlier than its expiry less the
\* buffer
CachedTokenUsable ==
  /\ ecommerceTokenCache # NoCache
  /\ clock < ExpiryOf(ecommerceTokenCache.accessToken) - bufferSeconds

\* a call that begins returns the cached token, with no login request and
\* no change of the cache, exactly when the cached token is usable;
\* otherwise it sends a login request, and the successful answer replaces
\* the cache with the token it carries
CacheDecidesByExpiry ==
  /\ \A k \in Slots : GetEcommerceToken(k) =>
       IF CachedTokenUsable
         THEN /\ tokenRet'.kind = "cached"
              /\ tokenRet'.token = ecommerceTokenCache.accessToken
              /\ UNCHANGED <<tokenCalls, ecommerceTokenCache>>
         ELSE /\ tokenRet'.kind = "none"
              /\ tokenCalls'[k] # Idle
              /\ UNCHANGED ecommerceTokenCache
  /\ \A k \in Slots, e \in ExpiresIn : LoginResponse(k, TRUE, e) =>
       /\ tokenRet'.kind = "login"
       /\ ecommerceTokenCache'.accessToken = tokenRet'.token

\* C21 as stated: the cache decides by the expiry less 30 seconds, and no
\* call (served from the cache or by a login) returns a token later than 30
\* seconds before that token's expiry.
TokenCacheExpiry ==
  [][/\ CacheDecidesByExpiry
     /\ tokenRet'.kind \in {"cached", "login"}
          => clock' <= ExpiryOf(tokenRet'.token) - bufferSeconds]_vars

\* C21 amended: the cache decides by the expiry less 30 seconds, counted
\* from the clock reading of the call that obtained the token, and no call
\* returns a token from the cache later than 30 seconds before that token's
\* expiry; a token that a login has just delivered is returned whatever its
\* lifetime and however long the login took.
CachedTokenNeverStale ==
  [][/\ CacheDecidesByExpiry
     /\ tokenRet'.kind = "cached"
          => clock' < ExpiryOf(tokenRet'.token) - bufferSeconds]_vars

\* a call was served from the cache after the clock had advanced, at the
\* last reading for which the cached token is usable
CachedTokenWitness ==
  /\ tokenRet.kind = "cached"
  /\ clock > tokenRet.token.requestedAt
  /\ clock + TickSeconds >= ExpiryOf(tokenRet.token) - bufferSeconds

\* C22: a login that succeeds returns the token of its own response and
\* leaves in the cache that token with the expiry computed from the same
\* response and the call's own clock reading, whatever other calls are
\* suspended and whatever the cache held; a login that fails throws and
\* leaves the cache as it was; no step touches another suspended call; so
\* the cache, when it is not empty, pairs a token with that token's expiry,
\* and a token served from the cache is the token of a successful login.
ConcurrentRefresh ==
  [][/\ \A k \in Slots, e \in ExpiresIn : LoginResponse(k, TRUE, e) =>
          /\ tokenRet'.kind = "login"
          /\ tokenRet'.token = Token(tokenCalls[k].now, e)
          /\ ecommerceTokenCache' =
               [accessToken |-> tokenRet'.token,
                expiresAt |-> tokenCalls[k].now + ExpiresInOf(e)]
          /\ \A j \in Slots \ {k} : tokenCalls'[j] = tokenCalls[j]
     /\ \A k \in Slots, e \in ExpiresIn : LoginResponse(k, FALSE, e) =>
          /\ tokenRet'.kind = "throw"
          /\ UNCHANGED ecommerceTokenCache
          /\ \A j \in Slots \ {k} : tokenCalls'[j] = tokenCalls[j]
     /\ ecommerceTokenCache' # NoCache =>
          ecommerceTokenCache'.expiresAt =
            ExpiryOf(ecommerceTokenCache'.accessToken)
     /\ tokenRet'.kind = "cached" =>
          /\ ecommerceTokenCache # NoCache
          /\ tokenRet'.token = ecommerceTokenCache.accessToken]_vars

\* two calls overlapped: the login that has just returned replaced a token
\* that was requested after this call had read the clock, and the cache now
\* holds the last writer's token with the earlier expiry
ConcurrentRefreshWitness ==
  /\ tokenRet.kind = "login"
  /\ tokenRet.replaced # NoCache
  /\ tokenRet.replaced.accessToken.requestedAt > tokenRet.token.requestedAt
  /\ ecommerceTokenCache.accessToken = tokenRet.token
  /\ ecommerceTokenCache.expiresAt < tokenRet.replaced.expiresAt

\* C23: what decrypt returns for the URL-safe token of encrypt(O) is O, and
\* the ciphertext it recovers from the token is the ciphertext encrypt
\* produced, whatever its length.
CodecRoundTrip ==
  codec.stage = "decrypted" =>
    /\ codec.recovered = codec.ciphertext
    /\ codec.out = codec.O

\* C24: with no confirmation in flight, a confirmation that was answered 200
\* (a new success or already processed) names a payment that has its
\* Subscription, is linked to it, and whose owner's profile is active; so a
\* retry after a failed write is not answered already-processed while the
\* Subscription or the profile update is missing.
ConfirmRetryConverges ==
  (AllIdle /\ lastResp.op = "confirm" /\ lastResp.status = 200) =>
    LET p == lastResp.paymentId IN
    /\ SubsFor(p) # {}
    /\ payment_transactions[p].subscription_id \in SubsFor(p)
    /\ lastResp.subscriptionId \in SubsFor(p)
    /\ ProfileOf(payment_transactions[p].user_id).subscription_status
         = "active"

\* the completed payments that reference subscription s
PaymentsOf(s) ==
  {p \in PtIds : /\ payment_transactions[p].status = "completed"
                 /\ payment_transactions[p].subscription_id = s}

\* C25: with no invocation in flight, every completed payment references an
\* existing Subscription, and every Subscription is referenced by exactly
\* one completed payment.
SubscriptionPaymentOneToOne ==
  AllIdle =>
    /\ \A p \in PtIds : payment_transactions[p].status = "completed"
         => payment_transactions[p].subscription_id \in SubIds
    /\ \A s \in SubIds : Cardinality(PaymentsOf(s)) = 1

\* the subscriptions of user u
SubsOf(u) == {s \in SubIds : subscriptions[s].user_id = u}

\* the most recently created subscription of user u
LatestSubOf(u) == CHOOSE s \in SubsOf(u) : \A t \in SubsOf(u) : t <= s

\* the profile of u is the projection of subscription s
Projects(u, s) ==
  /\ ProfileOf(u).subscription_status = "active"
  /\ ProfileOf(u).subscription_start_date = subscriptions[s].start_date
  /\ ProfileOf(u).subscription_end_date = subscriptions[s].end_date

\* after the step, the profile of user u is active from startDate
ProfileWritten(u, startDate) ==
  (IF Role[u] = "driver" THEN driver_profiles'[u] ELSE rider_profiles'[u]) =
    ActiveProfile(startDate)

\* C26: with no invocation in flight, the profile of every user who has a
\* Subscription is active with the dates of the user's most recently
\* created Subscription; and the step that reports a new success has
\* written the profile of the payment's owner.
ProfileProjection ==
  /\ [](AllIdle => \A u \in Users : SubsOf(u) # {} => Projects(u, LatestSubOf(u)))
  /\ [][\A i \in Slots :
          (/\ StepOf(i) /\ proc'[i] = Idle
           /\ lastResp'.detail \in {"success", "completed"})
          => ProfileWritten(proc[i].user, proc[i].startDate)]_vars

\* C29: the two handlers run the same statements on receipt and from the
\* subscription insert on, so they are equivalent when, at the payment
\* lookup, the POST handler takes the step the GET handler takes for the
\* same payload, the same tables and the same clock: the same writes, the
\* same answer (redirect or error) or the same continuation.
TransportsEquivalent ==
  [][\A i \in Slots, userOk \in BOOLEAN :
       PostFetch(i, userOk) => FetchStep(i, userOk, TRUE)]_vars

\* C28: at its payment lookup a callback for an existing payment takes the
\* failure path (the update to failed) unless its ResultCode is exactly
\* "0", and takes the success path when it is; and only a callback whose
\* ResultCode is "0" comes to insert a Subscription.
OutcomeClassification ==
  [][\A i \in Slots :
       /\ (/\ At(i, "callback", "fetch") /\ StepOf(i)
           /\ proc[i].payload.merchantTransactionId \in PtIds)
            => (proc[i].payload.ResultCode = "0"
                  <=> ~(proc'[i] # Idle /\ proc'[i].pc = "markFailed"))
       /\ (proc'[i] # Idle /\ proc'[i].op = "callback"
            /\ proc'[i].pc = "insertSub")
            => proc'[i].payload.ResultCode = "0"]_vars

\* the row a step has appended to subscriptions
NewSub == subscriptions'[Len(subscriptions) + 1]

\* C27: every subscriptions row is active and ends exactly 30 days after
\* its start, whatever the amount, the plan tag, the callback payload or
\* the looked-up transaction; the start is the reading of the clock that
\* the reconciling invocation took after it had found its payment (the
\* callback) or inserted it (the confirmation), and a row is appended by
\* such an invocation only.
SubscriptionWindowFixed ==
  [][/\ \A s \in 1..Len(subscriptions') :
          /\ subscriptions'[s].status = "active"
          /\ subscriptions'[s].end_date = subscriptions'[s].start_date + 30
     /\ \A i \in Slots :
          (StepOf(i) /\ proc'[i] # Idle /\ proc'[i].pc = "insertSub")
          => /\ proc'[i].startDate = now
             /\ proc[i] # Idle /\ proc[i].op \in {"callback", "confirm"}
     /\ Len(subscriptions') # Len(subscriptions) =>
          /\ Len(subscriptions') = Len(subscriptions) + 1
          /\ \E i \in Slots :
               /\ proc[i] # Idle /\ proc[i].pc = "insertSub" /\ StepOf(i)
               /\ NewSub.start_date = proc[i].startDate
               /\ NewSub.user_id = proc[i].user]_vars

\* a callback and a confirmation have each created a Subscription, at
\* different times and for different gateway transactions
SubscriptionWindowWitness ==
  /\ Len(subscriptions) = 2
  /\ subscriptions[1].start_date # subscriptions[2].start_date
  /\ subscriptions[1].payment_reference # subscriptions[2].payment_reference
  /\ \E s, t \in SubIds :
       /\ subscriptions[s].forPayment \in CheckoutIds
       /\ subscriptions[t].forPayment \in PtIds \ CheckoutIds

\* the profile rows of the users other than u are left as they are
OtherProfilesUnchanged(u) ==
  /\ \A v \in DOMAIN driver_profiles \ {u} :
       driver_profiles'[v] = driver_profiles[v]
  /\ \A v \in DOMAIN rider_profiles \ {u} :
       rider_profiles'[v] = rider_profiles[v]

\* C30: a step of a confirmation leaves every payment_transactions row
\* other than the one the invocation inserted, every existing subscriptions
\* row and every other user's profile as they are; it inserts a payment
\* only at its one payment insert (completed from its creation, owned by
\* the user, carrying the submitted transactionId) and a Subscription only
\* at its one subscription insert (owned by the user); on its own payment
\* it writes the subscription link only; and the 200 that reports the new
\* success names that payment and that Subscription.
ConfirmFrame ==
  [][\A i \in Slots :
       (proc[i] # Idle /\ proc[i].op = "confirm" /\ StepOf(i)) =>
         LET own == proc[i].paymentId
             n == Len(payment_transactions)
             k == Len(subscriptions) IN
         /\ \A p \in PtIds \ {own} :
              payment_transactions'[p] = payment_transactions[p]
         /\ \A s \in SubIds : subscriptions'[s] = subscriptions[s]
         /\ OtherProfilesUnchanged(proc[i].user)
         /\ Len(payment_transactions') \in {n, n + 1}
         /\ Len(payment_transactions') = n + 1 =>
              /\ proc[i].pc = "insertPt" /\ own = NoId
              /\ proc'[i] # Idle /\ proc'[i].paymentId = n + 1
              /\ payment_transactions'[n + 1].status = "completed"
              /\ payment_transactions'[n + 1].user_id = proc[i].user
              /\ payment_transactions'[n + 1].mmg_transaction_id =
                   proc[i].transactionId
         /\ Len(subscriptions') \in {k, k + 1}
         /\ Len(subscriptions') = k + 1 =>
              /\ proc[i].pc = "insertSub" /\ proc[i].subId = NoId
              /\ proc'[i] # Idle /\ proc'[i].subId = k + 1
              /\ subscriptions'[k + 1].user_id = proc[i].user
         /\ own \in PtIds =>
              \/ payment_transactions'[own] = payment_transactions[own]
              \/ /\ proc[i].pc = "linkPt"
                 /\ payment_transactions'[own] =
                      [payment_transactions[own] EXCEPT
                         !.subscription_id = proc[i].subId]
         /\ (proc'[i] = Idle /\ lastResp'.detail = "completed") =>
              /\ lastResp'.status = 200
              /\ lastResp'.paymentId = own
              /\ lastResp'.subscriptionId = proc[i].subId
              /\ payment_transactions'[own].status = "completed"
              /\ payment_transactions'[own].user_id = proc[i].user
              /\ payment_transactions'[own].subscription_id = proc[i].subId
              /\ subscriptions'[proc[i].subId].user_id = proc[i].user
              /\ ProfileWritten(proc[i].user, proc[i].startDate)
     ]_vars

\* the rider's confirmation has succeeded with one new payment and one new
\* Subscription; the rider's checkout payment is still pending and the
\* driver's profile is untouched
ConfirmFrameWitness ==
  /\ lastResp.op = "confirm" /\ lastResp.detail = "completed"
  /\ payment_transactions[1] = PendingRow("u1", 5000)
  /\ Len(payment_transactions) = 2 /\ Len(subscriptions) = 1
  /\ payment_transactions[2].user_id = "u1"
  /\ payment_transactions[2].status = "completed"
  /\ payment_transactions[2].subscription_id = 1
  /\ subscriptions[1].user_id = "u1"
  /\ ProfileOf("u2") = TrialProfile
====
